---- MODULE Spec2Model ----
(***************************************************************************)
(* Model of computeSales.py: the catalogue parser, the sales parser, the   *)
(* aggregator and the main pipeline.                                       *)
(*                                                                         *)
(* Decoded JSON values are tagged records [t, v].  Text is a sequence of   *)
(* one-character strings so that str.strip() and float(str) are computed.  *)
(* Numbers are integers; the model covers unsigned decimal integer text    *)
(* only (float() also accepts signs, fractions and exponents).  Floating   *)
(* point rounding is not modelled: every sum in the model stays below      *)
(* MaxFloat.                                                               *)
(***************************************************************************)
EXTENDS Integers, Sequences, FiniteSets, TLC

VARIABLES pc, argc, fs_catalogue, fs_sales, fs_writable,
          catalogue_data, sales_data, prices, lines, total,
          is_flat, items_sel, calls, stderr, stdout, results_file,
          exit_code, raised

vars == <<pc, argc, fs_catalogue, fs_sales, fs_writable,
          catalogue_data, sales_data, prices, lines, total,
          is_flat, items_sel, calls, stderr, stdout, results_file,
          exit_code, raised>>

(***************************************************************************)
(* Bounds of the model.                                                    *)
(***************************************************************************)
MaxFloat == 1000
MaxCat == 2
MaxFlat == 2
MaxSales == 2
MaxItems == 2
MaxLines == 3
MaxArgs == 3
MaxMainCat == 1
MaxMainSales == 2

\* a JSON integer literal too large for a double
Huge == MaxFloat + 1

(***************************************************************************)
(* Decoded JSON values.                                                    *)
(***************************************************************************)
Keys == {"title", "price", "Product", "Quantity", "items", "Items", "sale", "Sale"}

Absent == [t |-> "absent"]
NullV == [t |-> "null"]
BoolV(b) == [t |-> "bool", v |-> b]
NumV(n) == [t |-> "num", v |-> n]
StrV(s) == [t |-> "str", v |-> s]
ListV(l) == [t |-> "list", v |-> l]
\* an object with the members of the record fields; every other key is absent
ObjV(fields) == [t |-> "obj",
                 v |-> [k \in Keys |-> IF k \in DOMAIN fields THEN fields[k] ELSE Absent]]
EmptyObj == [t |-> "obj", v |-> [k \in Keys |-> Absent]]

\* isinstance(x, dict), isinstance(x, list), isinstance(x, str)
IsDict(x) == x.t = "obj"
IsList(x) == x.t = "list"
IsStr(x) == x.t = "str"

\* key in x
Has(x, k) == x.v[k].t # "absent"

\* x.get(key): None when the key is absent
Get(x, k) == IF Has(x, k) THEN x.v[k] ELSE NullV

\* truth value of a Python object, as tested by `or`
Truthy(x) ==
    CASE x.t = "null" -> FALSE
      [] x.t = "bool" -> x.v
      [] x.t = "num" -> x.v # 0
      [] x.t = "str" -> Len(x.v) > 0
      [] x.t = "list" -> Len(x.v) > 0
      [] x.t = "obj" -> \E k \in Keys : Has(x, k)
      [] OTHER -> FALSE

(***************************************************************************)
(* Text.                                                                   *)
(***************************************************************************)
Whitespace == {" "}
Digits == {"0", "1", "2", "3", "4", "5", "6", "7", "8", "9"}
DigitVal == ("0" :> 0) @@ ("1" :> 1) @@ ("2" :> 2) @@ ("3" :> 3) @@ ("4" :> 4) @@
            ("5" :> 5) @@ ("6" :> 6) @@ ("7" :> 7) @@ ("8" :> 8) @@ ("9" :> 9)

RECURSIVE LStrip(_)
LStrip(s) == IF Len(s) > 0 /\ Head(s) \in Whitespace THEN LStrip(Tail(s)) ELSE s

RECURSIVE RStrip(_)
RStrip(s) == IF Len(s) > 0 /\ s[Len(s)] \in Whitespace
             THEN RStrip(SubSeq(s, 1, Len(s) - 1)) ELSE s

\* str.strip()
Strip(s) == RStrip(LStrip(s))

RECURSIVE DigitsValue(_)
DigitsValue(s) == IF Len(s) = 0 THEN 0
                  ELSE 10 * DigitsValue(SubSeq(s, 1, Len(s) - 1)) + DigitVal[s[Len(s)]]

\* float(value): st is "ok", "reject" (TypeError or ValueError) or
\* "overflow" (OverflowError: int too large to convert to float)
FloatBoolAsInvalid(x) ==
    CASE x.t = "num" -> IF x.v > MaxFloat \/ x.v < 0 - MaxFloat
                        THEN [st |-> "overflow", v |-> 0]
                        ELSE [st |-> "ok", v |-> x.v]
      [] x.t = "str" -> LET s == Strip(x.v)
                        IN IF Len(s) > 0 /\ \A i \in 1..Len(s) : s[i] \in Digits
                           THEN [st |-> "ok", v |-> DigitsValue(s)]
                           ELSE [st |-> "reject", v |-> 0]
      [] OTHER -> [st |-> "reject", v |-> 0]

Float(x) ==
    CASE x.t = "num" -> IF x.v > MaxFloat \/ x.v < 0 - MaxFloat
                        THEN [st |-> "overflow", v |-> 0]
                        ELSE [st |-> "ok", v |-> x.v]
      [] x.t = "bool" -> [st |-> "ok", v |-> IF x.v THEN 1 ELSE 0]
      [] x.t = "str" -> LET s == Strip(x.v)
                        IN IF Len(s) > 0 /\ \A i \in 1..Len(s) : s[i] \in Digits
                           THEN [st |-> "ok", v |-> DigitsValue(s)]
                           ELSE [st |-> "reject", v |-> 0]
      [] OTHER -> [st |-> "reject", v |-> 0]

(***************************************************************************)
(* Diagnostics written by print_error.                                     *)
(***************************************************************************)
Diag(msg, at, arg) == [msg |-> msg, at |-> at, arg |-> arg]

EmptyPrices == [k \in {} |-> 0]

(***************************************************************************)
(* parse_catalogue                                                         *)
(***************************************************************************)
\* the body of the for loop for the entry at position idx; acc holds
\* prices, err (diagnostics so far) and exc (the exception raised, if any)
CatalogueStepFirstWins(acc, item, idx) ==
    IF ~IsDict(item)
    THEN [acc EXCEPT !.err = Append(@, Diag("Catalogue item: not an object", <<idx>>, <<>>))]
    ELSE LET title == Get(item, "title")
             price == Get(item, "price")
         IN IF ~IsStr(title) \/ Len(Strip(title.v)) = 0
            THEN [acc EXCEPT !.err = Append(@, Diag("Catalogue item: invalid title", <<idx>>, <<>>))]
            ELSE LET f == Float(price)
                 IN CASE f.st = "reject" ->
                           [acc EXCEPT !.err = Append(@, Diag("Catalogue item: invalid price", <<idx>>, <<>>))]
                      [] f.st = "overflow" -> [acc EXCEPT !.exc = "OverflowError"]
                      [] OTHER -> [acc EXCEPT !.prices = @ @@ (title.v :> f.v)]

CatalogueStep(acc, item, idx) ==
    IF ~IsDict(item)
    THEN [acc EXCEPT !.err = Append(@, Diag("Catalogue item: not an object", <<idx>>, <<>>))]
    ELSE LET title == Get(item, "title")
             price == Get(item, "price")
         IN IF ~IsStr(title) \/ Len(Strip(title.v)) = 0
            THEN [acc EXCEPT !.err = Append(@, Diag("Catalogue item: invalid title", <<idx>>, <<>>))]
            ELSE LET f == Float(price)
                 IN CASE f.st = "reject" ->
                           [acc EXCEPT !.err = Append(@, Diag("Catalogue item: invalid price", <<idx>>, <<>>))]
                      [] f.st = "overflow" -> [acc EXCEPT !.exc = "OverflowError"]
                      [] OTHER -> [acc EXCEPT !.prices = (title.v :> f.v) @@ @]

RECURSIVE CatalogueLoop(_, _, _)
CatalogueLoop(acc, data, idx) ==
    IF idx > Len(data) \/ acc.exc # "none" THEN acc
    ELSE CatalogueLoop(CatalogueStep(acc, data[idx], idx), data, idx + 1)

parse_catalogue(data) ==
    IF ~IsList(data)
    THEN [prices |-> EmptyPrices, err |-> <<>>, exc |-> "ValueError"]
    ELSE CatalogueLoop([prices |-> EmptyPrices, err |-> <<>>, exc |-> "none"], data.v, 1)

(***************************************************************************)
(* safe_sale_lines                                                         *)
(***************************************************************************)
SaleLine(product, quantity) == [product |-> product, quantity |-> quantity]

\* parse_line(obj, line_no); acc holds lines, err, calls (the arguments of
\* every parse_line call so far) and exc
parse_line_unstripped(acc0, obj, line_no) ==
    LET acc == [acc0 EXCEPT !.calls = Append(@, [obj |-> obj, label |-> line_no])]
    IN IF ~IsDict(obj)
       THEN [acc EXCEPT !.err = Append(@, Diag("Sale line: not an object", line_no, <<>>))]
       ELSE LET product == Get(obj, "Product")
                quantity == Get(obj, "Quantity")
            IN IF ~IsStr(product) \/ Len(product.v) = 0
               THEN [acc EXCEPT !.err = Append(@, Diag("Sale line: invalid Product", line_no, <<>>))]
               ELSE LET f == Float(quantity)
                    IN CASE f.st = "reject" ->
                              [acc EXCEPT !.err = Append(@, Diag("Sale line: invalid Quantity", line_no, <<>>))]
                         [] f.st = "overflow" -> [acc EXCEPT !.exc = "OverflowError"]
                         [] OTHER -> [acc EXCEPT !.lines = Append(@, SaleLine(product.v, f.v))]

parse_line(acc0, obj, line_no) ==
    LET acc == [acc0 EXCEPT !.calls = Append(@, [obj |-> obj, label |-> line_no])]
    IN IF ~IsDict(obj)
       THEN [acc EXCEPT !.err = Append(@, Diag("Sale line: not an object", line_no, <<>>))]
       ELSE LET product == Get(obj, "Product")
                quantity == Get(obj, "Quantity")
            IN IF ~IsStr(product) \/ Len(Strip(product.v)) = 0
               THEN [acc EXCEPT !.err = Append(@, Diag("Sale line: invalid Product", line_no, <<>>))]
               ELSE LET f == Float(quantity)
                    IN CASE f.st = "reject" ->
                              [acc EXCEPT !.err = Append(@, Diag("Sale line: invalid Quantity", line_no, <<>>))]
                         [] f.st = "overflow" -> [acc EXCEPT !.exc = "OverflowError"]
                         [] OTHER -> [acc EXCEPT !.lines = Append(@, SaleLine(product.v, f.v))]

\* is_flat = all(isinstance(x, dict) and "Product" in x and "Quantity" in x ...)
IsFlatAny(data) ==
    \E i \in 1..Len(data) :
        IsDict(data[i]) /\ Has(data[i], "Product") /\ Has(data[i], "Quantity")

IsFlat(data) ==
    \A i \in 1..Len(data) :
        IsDict(data[i]) /\ Has(data[i], "Product") /\ Has(data[i], "Quantity")

\* for i, obj in enumerate(sales_data, start=1): parse_line(obj, str(i))
RECURSIVE FlatLoop(_, _, _)
FlatLoop(acc, data, i) ==
    IF i > Len(data) \/ acc.exc # "none" THEN acc
    ELSE FlatLoop(parse_line(acc, data[i], <<i>>), data, i + 1)

\* sale_obj.get("items") or sale_obj.get("Items") or sale_obj.get("sale")
\* or sale_obj.get("Sale")
SelectItems(sale_obj) ==
    LET a == Get(sale_obj, "items")
        b == Get(sale_obj, "Items")
        c == Get(sale_obj, "sale")
        d == Get(sale_obj, "Sale")
    IN IF Truthy(a) THEN a ELSE IF Truthy(b) THEN b ELSE IF Truthy(c) THEN c ELSE d

\* for item_idx, item in enumerate(items, start=1): parse_line(item, "i.j")
RECURSIVE ItemLoop(_, _, _, _)
ItemLoop(acc, items, sale_idx, item_idx) ==
    IF item_idx > Len(items) \/ acc.exc # "none" THEN acc
    ELSE ItemLoop(parse_line(acc, items[item_idx], <<sale_idx, item_idx>>),
                  items, sale_idx, item_idx + 1)

\* the body of the nested-mode loop for the sale at position sale_idx
SaleStep(acc, sale_obj, sale_idx) ==
    LET items == IF IsDict(sale_obj) THEN SelectItems(sale_obj) ELSE Absent
        acc1 == [acc EXCEPT !.items_sel = Append(@, items)]
    IN IF IsDict(sale_obj) /\ IsList(items)
       THEN ItemLoop(acc1, items.v, sale_idx, 1)
       ELSE [acc1 EXCEPT !.err = Append(@, Diag("Sale: unexpected structure", <<sale_idx>>, <<>>))]

RECURSIVE SaleLoop(_, _, _)
SaleLoop(acc, data, sale_idx) ==
    IF sale_idx > Len(data) \/ acc.exc # "none" THEN acc
    ELSE SaleLoop(SaleStep(acc, data[sale_idx], sale_idx), data, sale_idx + 1)

NoLines == [lines |-> <<>>, err |-> <<>>, calls |-> <<>>, items_sel |-> <<>>,
            is_flat |-> FALSE, exc |-> "none"]

safe_sale_lines(data) ==
    IF ~IsList(data)
    THEN [NoLines EXCEPT !.exc = "ValueError"]
    ELSE IF IsFlat(data.v)
         THEN FlatLoop([NoLines EXCEPT !.is_flat = TRUE], data.v, 1)
         ELSE SaleLoop(NoLines, data.v, 1)

(***************************************************************************)
(* compute_total                                                           *)
(***************************************************************************)
\* the body of the for loop for the line at position idx
TotalStepFalsyPrice(acc, ps, line, idx) ==
    IF line.product \notin DOMAIN ps \/ ps[line.product] = 0
    THEN [acc EXCEPT !.err = Append(@, Diag("Unknown product at sale line", <<idx>>, line.product))]
    ELSE [acc EXCEPT !.total = @ + ps[line.product] * line.quantity]

TotalStep(acc, ps, line, idx) ==
    IF line.product \notin DOMAIN ps
    THEN [acc EXCEPT !.err = Append(@, Diag("Unknown product at sale line", <<idx>>, line.product))]
    ELSE [acc EXCEPT !.total = @ + ps[line.product] * line.quantity]

RECURSIVE TotalLoop(_, _, _, _)
TotalLoop(acc, ps, ls, idx) ==
    IF idx > Len(ls) THEN acc
    ELSE TotalLoop(TotalStep(acc, ps, ls[idx], idx), ps, ls, idx + 1)

compute_total(ps, ls) == TotalLoop([total |-> 0, err |-> <<>>], ps, ls, 1)

\* format_results(total, elapsed): the report carries the total
format_results(t) == [total |-> t]

(***************************************************************************)
(* Inputs: the bounded sets the documents and arguments are drawn from.    *)
(***************************************************************************)
sA == <<"A">>
sPadA == <<" ", "A">>
sB == <<"B">>
sC == <<"C">>
sBlank == <<" ">>
s3 == <<"3">>
sPad12 == <<" ", "1", "2", " ">>
sx == <<"x">>

SeqsUpTo(S, n) == UNION {[1..k -> S] : k \in 0..n}

CatEntry(title, price) == ObjV([title |-> title, price |-> price])
Line(product, quantity) == ObjV([Product |-> product, Quantity |-> quantity])

\* every kind of value a price or Quantity member can hold
NumericVals == {NumV(2), NumV(0), StrV(s3), StrV(sPad12)}
HugeVals == {NumV(Huge)}
BoolVals == {BoolV(TRUE), BoolV(FALSE)}
OtherVals == {Absent, NullV, StrV(sx), StrV(<<>>), ListV(<<>>), ListV(<<NumV(2)>>), EmptyObj}
FieldVals == NumericVals \cup HugeVals \cup BoolVals \cup OtherVals

CatEntries ==
    {NumV(7)}
    \cup {CatEntry(t, NumV(2)) : t \in {Absent, NumV(5), StrV(sBlank), StrV(<<>>)}}
    \cup {CatEntry(StrV(t), p) : t \in {sA, sPadA}, p \in FieldVals}

CatDocs == {ListV(l) : l \in SeqsUpTo(CatEntries, MaxCat)} \cup {EmptyObj, NullV}

FlatElems ==
    {Line(p, NumV(2)) : p \in {NumV(5), StrV(sBlank), NullV}}
    \cup {Line(StrV(sA), q) : q \in FieldVals \ {Absent}}
    \cup {Line(StrV(sB), StrV(s3))}

FlatDocs == {ListV(l) : l \in SeqsUpTo(FlatElems, MaxFlat)}

ItemCands ==
    {NumV(7), Line(StrV(sA), NumV(2)), Line(StrV(sB), StrV(sx)), Line(StrV(sA), Absent),
     Line(Absent, NumV(2))}

ItemVals == {ListV(l) : l \in SeqsUpTo(ItemCands, MaxItems)} \cup {NullV, NumV(7), NumV(0)}

ItemKeys == <<"items", "Items", "sale", "Sale">>

OneKey(k, val) == [t |-> "obj", v |-> [x \in Keys |-> IF x = k THEN val ELSE Absent]]
TwoKeys(k1, v1, k2, v2) ==
    [t |-> "obj",
     v |-> [x \in Keys |-> IF x = k1 THEN v1 ELSE IF x = k2 THEN v2 ELSE Absent]]

FirstVals == {NullV, ListV(<<>>), NumV(7), ListV(<<Line(StrV(sA), NumV(2))>>)}
SecondVals == {ListV(<<>>), ListV(<<Line(StrV(sB), StrV(s3))>>)}

\* sale objects met one at a time
RichSales ==
    {OneKey(ItemKeys[i], val) : i \in 1..4, val \in ItemVals}
    \cup UNION {{TwoKeys(ItemKeys[ij[1]], v1, ItemKeys[ij[2]], v2) :
                    v1 \in FirstVals, v2 \in SecondVals} :
                 ij \in {x \in (1..4) \X (1..4) : x[1] < x[2]}}

\* top-level elements met in every combination
CoreSales ==
    {NumV(7), ListV(<<Line(StrV(sA), NumV(2))>>), EmptyObj,
     Line(StrV(sA), NumV(2)), Line(StrV(sB), StrV(sx)), Line(StrV(sA), Absent),
     OneKey("items", ListV(<<>>)), OneKey("Sale", ListV(<<>>)),
     OneKey("items", ListV(<<Line(StrV(sA), NumV(2)), Line(StrV(sB), StrV(s3))>>)),
     OneKey("Items", ListV(<<Line(StrV(sB), StrV(sPad12)), NumV(7), Line(StrV(sA), BoolV(TRUE))>>)),
     OneKey("sale", ListV(<<Line(StrV(sA), NumV(Huge)), Line(StrV(sA), NumV(2))>>)),
     TwoKeys("items", NullV, "Items", ListV(<<Line(StrV(sA), NumV(2))>>)),
     TwoKeys("items", ListV(<<>>), "Sale", ListV(<<Line(StrV(sB), StrV(s3))>>)),
     TwoKeys("Items", ListV(<<Line(StrV(sA), NumV(2))>>), "sale", ListV(<<Line(StrV(sB), StrV(s3))>>))}

NestedDocs ==
    {ListV(<<e>>) : e \in RichSales}
    \cup {ListV(l) : l \in SeqsUpTo(CoreSales, MaxSales)}

SalesDocs == FlatDocs \cup NestedDocs \cup {EmptyObj, NullV}

PriceKeys == {sA, sB}
PriceMaps == UNION {[D -> {0, 2, 3}] : D \in SUBSET PriceKeys}
SaleLines == {SaleLine(p, q) : p \in {sA, sB, sC}, q \in {1, 3}}
LineSeqs == SeqsUpTo(SaleLines, MaxLines)

\* what the two paths and the working directory hold when main runs
FileFailures == {"missing", "unreadable", "badjson"}
AsFile(doc) == [st |-> "json", doc |-> doc]
Failure(k) == [st |-> k, doc |-> NullV]

MainCatEntries ==
    {NumV(7), CatEntry(StrV(sA), NumV(2)), CatEntry(StrV(sA), StrV(sx)),
     CatEntry(StrV(sB), StrV(s3)), CatEntry(StrV(sA), NumV(Huge))}
MainCatFiles ==
    {Failure(k) : k \in FileFailures}
    \cup {AsFile(EmptyObj)}
    \cup {AsFile(ListV(l)) : l \in SeqsUpTo(MainCatEntries, MaxMainCat)}

MainSaleElems ==
    {NumV(7), Line(StrV(sA), NumV(2)), Line(StrV(sB), StrV(sx)),
     Line(StrV(sA), NumV(Huge)), Line(StrV(sC), NumV(2)),
     OneKey("items", ListV(<<Line(StrV(sB), NumV(2))>>))}
MainSalesFiles ==
    {Failure(k) : k \in FileFailures}
    \cup {AsFile(EmptyObj)}
    \cup {AsFile(ListV(l)) : l \in SeqsUpTo(MainSaleElems, MaxMainSales)}

(***************************************************************************)
(* The functions called on their own: SpecUnit.                            *)
(***************************************************************************)
NoEnv ==
    /\ argc = 2
    /\ fs_catalogue = Failure("missing")
    /\ fs_sales = Failure("missing")
    /\ fs_writable = TRUE
    /\ stdout = <<>>
    /\ results_file = "unwritten"
    /\ exit_code = 0
    /\ raised = "none"
    /\ stderr = <<>>
    /\ total = 0
    /\ is_flat = FALSE
    /\ items_sel = <<>>
    /\ calls = <<>>

InitParseCatalogue ==
    /\ NoEnv
    /\ pc = "call_parse_catalogue"
    /\ catalogue_data \in CatDocs
    /\ sales_data = NullV
    /\ prices = EmptyPrices
    /\ lines = <<>>

InitSafeSaleLines ==
    /\ NoEnv
    /\ pc = "call_safe_sale_lines"
    /\ catalogue_data = NullV
    /\ sales_data \in SalesDocs
    /\ prices = EmptyPrices
    /\ lines = <<>>

InitComputeTotal ==
    /\ NoEnv
    /\ pc = "call_compute_total"
    /\ catalogue_data = NullV
    /\ sales_data = NullV
    /\ prices \in PriceMaps
    /\ lines \in LineSeqs

InitUnit == InitParseCatalogue \/ InitSafeSaleLines \/ InitComputeTotal

CallParseCatalogue ==
    /\ pc = "call_parse_catalogue"
    /\ LET r == parse_catalogue(catalogue_data)
       IN /\ prices' = r.prices
          /\ stderr' = stderr \o r.err
          /\ raised' = r.exc
          /\ pc' = IF r.exc = "none" THEN "ret_parse_catalogue" ELSE "exc_parse_catalogue"
    /\ UNCHANGED <<argc, fs_catalogue, fs_sales, fs_writable, catalogue_data, sales_data,
                   lines, total, is_flat, items_sel, calls, stdout, results_file, exit_code>>

CallSafeSaleLines ==
    /\ pc = "call_safe_sale_lines"
    /\ LET r == safe_sale_lines(sales_data)
       IN /\ lines' = r.lines
          /\ is_flat' = r.is_flat
          /\ items_sel' = r.items_sel
          /\ calls' = r.calls
          /\ stderr' = stderr \o r.err
          /\ raised' = r.exc
          /\ pc' = IF r.exc = "none" THEN "ret_safe_sale_lines" ELSE "exc_safe_sale_lines"
    /\ UNCHANGED <<argc, fs_catalogue, fs_sales, fs_writable, catalogue_data, sales_data,
                   prices, total, stdout, results_file, exit_code>>

CallComputeTotal ==
    /\ pc = "call_compute_total"
    /\ LET r == compute_total(prices, lines)
       IN /\ total' = r.total
          /\ stderr' = stderr \o r.err
          /\ pc' = "ret_compute_total"
    /\ UNCHANGED <<argc, fs_catalogue, fs_sales, fs_writable, catalogue_data, sales_data,
                   prices, lines, is_flat, items_sel, calls, stdout, results_file,
                   exit_code, raised>>

NextUnit == CallParseCatalogue \/ CallSafeSaleLines \/ CallComputeTotal

SpecUnit == InitUnit /\ [][NextUnit]_vars

(***************************************************************************)
(* main                                                                    *)
(***************************************************************************)
\* load_json_file(file_path)
load_json_file(file) ==
    CASE file.st = "json" -> [exc |-> "none", val |-> file.doc]
      [] file.st = "missing" -> [exc |-> "FileNotFoundError", val |-> NullV]
      [] file.st = "badjson" -> [exc |-> "ValueError", val |-> NullV]
      [] OTHER -> [exc |-> "OSError", val |-> NullV]

\* except (FileNotFoundError, ValueError)
Caught == {"FileNotFoundError", "ValueError"}

Init ==
    /\ pc = "main"
    /\ argc \in 0..MaxArgs
    /\ fs_catalogue \in MainCatFiles
    /\ fs_sales \in MainSalesFiles
    /\ fs_writable \in BOOLEAN
    /\ catalogue_data = NullV
    /\ sales_data = NullV
    /\ prices = EmptyPrices
    /\ lines = <<>>
    /\ total = 0
    /\ is_flat = FALSE
    /\ items_sel = <<>>
    /\ calls = <<>>
    /\ stderr = <<>>
    /\ stdout = <<>>
    /\ results_file = "unwritten"
    /\ exit_code = 0
    /\ raised = "none"

\* how an exception raised inside the try block ends main: diags are the
\* diagnostics printed before it was raised
Except(exc, diags) ==
    /\ pc' = "done"
    /\ IF exc \in Caught
       THEN /\ stderr' = (stderr \o diags) \o <<Diag(exc, <<>>, <<>>)>>
            /\ exit_code' = 1
            /\ raised' = "none"
       ELSE /\ stderr' = stderr \o diags
            /\ exit_code' = exit_code
            /\ raised' = exc

\* if len(argv) != 3: ... return 2
CheckArgs ==
    /\ pc = "main"
    /\ IF argc + 1 # 3
       THEN /\ stderr' = Append(stderr, Diag("Invalid arguments", <<>>, <<>>))
            /\ exit_code' = 2
            /\ pc' = "done"
       ELSE /\ pc' = "load_catalogue"
            /\ UNCHANGED <<stderr, exit_code>>
    /\ UNCHANGED <<argc, fs_catalogue, fs_sales, fs_writable, catalogue_data, sales_data,
                   prices, lines, total, is_flat, items_sel, calls, stdout, results_file,
                   raised>>

LoadCatalogue ==
    /\ pc = "load_catalogue"
    /\ LET r == load_json_file(fs_catalogue)
       IN IF r.exc = "none"
          THEN /\ catalogue_data' = r.val
               /\ pc' = "load_sales"
               /\ UNCHANGED <<stderr, exit_code, raised>>
          ELSE /\ Except(r.exc, <<>>)
               /\ UNCHANGED catalogue_data
    /\ UNCHANGED <<argc, fs_catalogue, fs_sales, fs_writable, sales_data,
                   prices, lines, total, is_flat, items_sel, calls, stdout, results_file>>

LoadSales ==
    /\ pc = "load_sales"
    /\ LET r == load_json_file(fs_sales)
       IN IF r.exc = "none"
          THEN /\ sales_data' = r.val
               /\ pc' = "parse_catalogue"
               /\ UNCHANGED <<stderr, exit_code, raised>>
          ELSE /\ Except(r.exc, <<>>)
               /\ UNCHANGED sales_data
    /\ UNCHANGED <<argc, fs_catalogue, fs_sales, fs_writable, catalogue_data,
                   prices, lines, total, is_flat, items_sel, calls, stdout, results_file>>

ParseCatalogue ==
    /\ pc = "parse_catalogue"
    /\ LET r == parse_catalogue(catalogue_data)
       IN IF r.exc = "none"
          THEN /\ prices' = r.prices
               /\ stderr' = stderr \o r.err
               /\ pc' = "safe_sale_lines"
               /\ UNCHANGED <<exit_code, raised>>
          ELSE /\ Except(r.exc, r.err)
               /\ UNCHANGED prices
    /\ UNCHANGED <<argc, fs_catalogue, fs_sales, fs_writable, catalogue_data, sales_data,
                   lines, total, is_flat, items_sel, calls, stdout, results_file>>

ParseSales ==
    /\ pc = "safe_sale_lines"
    /\ LET r == safe_sale_lines(sales_data)
       IN /\ is_flat' = r.is_flat
          /\ items_sel' = r.items_sel
          /\ calls' = r.calls
          /\ IF r.exc = "none"
             THEN /\ lines' = r.lines
                  /\ stderr' = stderr \o r.err
                  /\ pc' = "compute_total"
                  /\ UNCHANGED <<exit_code, raised>>
             ELSE /\ Except(r.exc, r.err)
                  /\ UNCHANGED lines
    /\ UNCHANGED <<argc, fs_catalogue, fs_sales, fs_writable, catalogue_data, sales_data,
                   prices, total, stdout, results_file>>

ComputeTotal ==
    /\ pc = "compute_total"
    /\ LET r == compute_total(prices, lines)
       IN /\ total' = r.total
          /\ stderr' = stderr \o r.err
    /\ pc' = "print"
    /\ UNCHANGED <<argc, fs_catalogue, fs_sales, fs_writable, catalogue_data, sales_data,
                   prices, lines, is_flat, items_sel, calls, stdout, results_file,
                   exit_code, raised>>

\* output = format_results(total, elapsed); print(output)
PrintReportAfterWrite ==
    /\ pc = "print"
    /\ stdout' = IF fs_writable THEN Append(stdout, format_results(total)) ELSE stdout
    /\ pc' = "write"
    /\ UNCHANGED <<argc, fs_catalogue, fs_sales, fs_writable, catalogue_data, sales_data,
                   prices, lines, total, is_flat, items_sel, calls, stderr, results_file,
                   exit_code, raised>>

PrintReport ==
    /\ pc = "print"
    /\ stdout' = Append(stdout, format_results(total))
    /\ pc' = "write"
    /\ UNCHANGED <<argc, fs_catalogue, fs_sales, fs_writable, catalogue_data, sales_data,
                   prices, lines, total, is_flat, items_sel, calls, stderr, results_file,
                   exit_code, raised>>

\* Path(RESULTS_FILENAME).write_text(output); a failed write leaves the
\* file untouched or incomplete
WriteResults ==
    /\ pc = "write"
    /\ IF fs_writable
       THEN /\ results_file' = "written"
            /\ exit_code' = 0
            /\ UNCHANGED stderr
       ELSE /\ results_file' \in {"unwritten", "partial"}
            /\ exit_code' = 1
            /\ stderr' = Append(stderr, Diag("Could not write", <<>>, <<>>))
    /\ pc' = "done"
    /\ UNCHANGED <<argc, fs_catalogue, fs_sales, fs_writable, catalogue_data, sales_data,
                   prices, lines, total, is_flat, items_sel, calls, stdout, raised>>

Next ==
    \/ CheckArgs
    \/ LoadCatalogue
    \/ LoadSales
    \/ ParseCatalogue
    \/ ParseSales
    \/ ComputeTotal
    \/ PrintReport
    \/ WriteResults

Spec == Init /\ [][Next]_vars

(***************************************************************************)
(* Vocabulary of the properties, stated without the parsers' helpers.      *)
(***************************************************************************)
\* text made of decimal digits, possibly padded with whitespace
LooksNumeric(s) ==
    \E a \in 1..Len(s) : \E b \in a..Len(s) :
        /\ \A i \in 1..Len(s) : IF i < a \/ i > b THEN s[i] \in Whitespace ELSE s[i] \in Digits

NumberOrNumericText(x) == x.t = "num" \/ (x.t = "str" /\ LooksNumeric(x.v))
NumberTextOrBool(x) == NumberOrNumericText(x) \/ x.t = "bool"

\* the number a coercible value stands for
ValueOf(x) ==
    CASE x.t = "num" -> x.v
      [] x.t = "bool" -> IF x.v THEN 1 ELSE 0
      [] x.t = "str" -> DigitsValue(SelectSeq(x.v, LAMBDA c : c \in Digits))
      [] OTHER -> 0

\* text with at least one non-whitespace character
NonBlankText(x) == x.t = "str" /\ \E i \in 1..Len(x.v) : x.v[i] \notin Whitespace

CountAt(err, msgs, at) ==
    Cardinality({k \in 1..Len(err) : err[k].msg \in msgs /\ err[k].at = at})
CountMsgs(err, msgs) == Cardinality({k \in 1..Len(err) : err[k].msg \in msgs})

CatalogueMsgs == {"Catalogue item: not an object", "Catalogue item: invalid title",
                  "Catalogue item: invalid price"}
LineMsgs == {"Sale line: not an object", "Sale line: invalid Product",
             "Sale line: invalid Quantity"}

(***************************************************************************)
(* C1: compute_total                                                       *)
(***************************************************************************)
RECURSIVE SumMatched(_, _)
SumMatched(ps, ls) ==
    IF ls = <<>> THEN 0
    ELSE (IF Head(ls).product \in DOMAIN ps
          THEN ps[Head(ls).product] * Head(ls).quantity ELSE 0)
         + SumMatched(ps, Tail(ls))

Unmatched == {i \in 1..Len(lines) : lines[i].product \notin DOMAIN prices}

\* C1: compute_total returns the sum of price x quantity over the lines
\* whose product is a key of the price mapping; every other line adds 0
\* and yields exactly one 'Unknown product' diagnostic carrying its 1-based
\* position and product, and matched lines yield no diagnostic.
C1_Total ==
    pc = "ret_compute_total" =>
        /\ total = SumMatched(prices, lines)
        /\ Len(stderr) = Cardinality(Unmatched)
        /\ \A i \in 1..Len(lines) :
              CountAt(stderr, {"Unknown product at sale line"}, <<i>>)
                  = IF i \in Unmatched THEN 1 ELSE 0
        /\ \A k \in 1..Len(stderr) : stderr[k].arg = lines[stderr[k].at[1]].product

C1_Witness ==
    /\ pc = "ret_compute_total"
    /\ Len(lines) = MaxLines
    /\ Unmatched # {}
    /\ total > 0
    /\ \E i \in 1..Len(lines) : lines[i].product \in DOMAIN prices /\ prices[lines[i].product] = 0

(***************************************************************************)
(* C8: parse_catalogue                                                     *)
(***************************************************************************)
ValidEntry(e) ==
    /\ e.t = "obj"
    /\ NonBlankText(e.v["title"])
    /\ NumberTextOrBool(e.v["price"])

ValidEntries == {i \in 1..Len(catalogue_data.v) : ValidEntry(catalogue_data.v[i])}

LastValid(k) ==
    CHOOSE i \in ValidEntries :
        /\ catalogue_data.v[i].v["title"].v = k
        /\ \A j \in ValidEntries : catalogue_data.v[j].v["title"].v = k => j <= i

\* C8: the mapping returned by parse_catalogue has as keys exactly the
\* titles of the valid entries, and each key maps to the price of the last
\* valid entry with that title in document order.
C8_LastValidWins ==
    pc = "ret_parse_catalogue" =>
        /\ DOMAIN prices = {catalogue_data.v[i].v["title"].v : i \in ValidEntries}
        /\ \A k \in DOMAIN prices :
              prices[k] = ValueOf(catalogue_data.v[LastValid(k)].v["price"])

C8_Witness ==
    /\ pc = "ret_parse_catalogue"
    /\ Len(catalogue_data.v) = 2
    /\ ValidEntries = {1, 2}
    /\ catalogue_data.v[1].v["title"] = catalogue_data.v[2].v["title"]
    /\ ValueOf(catalogue_data.v[1].v["price"]) # ValueOf(catalogue_data.v[2].v["price"])
    /\ prices[catalogue_data.v[2].v["title"].v] = ValueOf(catalogue_data.v[2].v["price"])

(***************************************************************************)
(* C7: numeric coercion of price and Quantity                              *)
(***************************************************************************)
\* the catalogue entries whose price is coerced: objects with a valid title
PricedEntries ==
    {i \in 1..Len(catalogue_data.v) :
        catalogue_data.v[i].t = "obj" /\ NonBlankText(catalogue_data.v[i].v["title"])}

\* the candidate lines whose Quantity is coerced: objects with a valid Product
QuantifiedCalls ==
    {k \in 1..Len(calls) : calls[k].obj.t = "obj" /\ NonBlankText(calls[k].obj.v["Product"])}

\* with Accepts the kinds of value the coercion accepts: an accepted price
\* stores its title and yields no diagnostic, any other price yields
\* exactly one 'invalid price' diagnostic and stores nothing
PriceCoercion(Accepts(_)) ==
    pc = "ret_parse_catalogue" =>
        /\ \A i \in PricedEntries :
              LET e == catalogue_data.v[i]
              IN IF Accepts(e.v["price"])
                 THEN /\ CountAt(stderr, CatalogueMsgs, <<i>>) = 0
                      /\ e.v["title"].v \in DOMAIN prices
                 ELSE /\ CountAt(stderr, CatalogueMsgs, <<i>>) = 1
                      /\ CountAt(stderr, {"Catalogue item: invalid price"}, <<i>>) = 1
        /\ \A k \in DOMAIN prices :
              \E i \in PricedEntries :
                  /\ catalogue_data.v[i].v["title"].v = k
                  /\ Accepts(catalogue_data.v[i].v["price"])

\* the same for the Quantity of a candidate line
QuantityCoercion(Accepts(_)) ==
    pc = "ret_safe_sale_lines" =>
        /\ \A k \in QuantifiedCalls :
              LET c == calls[k]
              IN IF Accepts(c.obj.v["Quantity"])
                 THEN CountAt(stderr, LineMsgs, c.label) = 0
                 ELSE /\ CountAt(stderr, LineMsgs, c.label) = 1
                      /\ CountAt(stderr, {"Sale line: invalid Quantity"}, c.label) = 1
        /\ Len(lines) = Cardinality({k \in QuantifiedCalls : Accepts(calls[k].obj.v["Quantity"])})

ValidCandidate(obj) ==
    /\ obj.t = "obj"
    /\ NonBlankText(obj.v["Product"])
    /\ NumberTextOrBool(obj.v["Quantity"])

RECURSIVE ValidLines(_)
ValidLines(cs) ==
    IF cs = <<>> THEN <<>>
    ELSE (IF ValidCandidate(Head(cs).obj)
          THEN <<[product |-> Head(cs).obj.v["Product"].v,
                  quantity |-> ValueOf(Head(cs).obj.v["Quantity"])]>>
          ELSE <<>>) \o ValidLines(Tail(cs))

\* the candidates in encounter order: the top-level elements in flat mode,
\* the elements of each sale's items list, sale after sale, in nested mode
RECURSIVE Encounter(_, _)
Encounter(data, i) ==
    IF i > Len(data) THEN <<>>
    ELSE (IF is_flat
          THEN <<[obj |-> data[i], label |-> <<i>>]>>
          ELSE IF items_sel[i].t = "list"
               THEN [j \in 1..Len(items_sel[i].v) |->
                        [obj |-> items_sel[i].v[j], label |-> <<i, j>>]]
               ELSE <<>>) \o Encounter(data, i + 1)

\* C10: safe_sale_lines returns exactly the candidates that pass
\* validation, in encounter order; every returned line has a non-blank
\* text product; every rejected candidate yields exactly one diagnostic
\* with its label and no line.
C10_ValidSubsequence ==
    pc = "ret_safe_sale_lines" =>
        /\ calls = Encounter(sales_data.v, 1)
        /\ lines = ValidLines(calls)
        /\ \A n \in 1..Len(lines) :
              \E i \in 1..Len(lines[n].product) : lines[n].product[i] \notin Whitespace
        /\ \A k \in 1..Len(calls) :
              CountAt(stderr, LineMsgs, calls[k].label)
                  = IF ValidCandidate(calls[k].obj) THEN 0 ELSE 1
        /\ CountMsgs(stderr, LineMsgs) + Len(lines) = Len(calls)

C10_Witness ==
    /\ pc = "ret_safe_sale_lines"
    /\ ~is_flat
    /\ Len(lines) >= 2
    /\ \E a, b \in 1..Len(calls) :
          /\ a < b
          /\ calls[a].label[1] < calls[b].label[1]
          /\ ValidCandidate(calls[a].obj)
          /\ ValidCandidate(calls[b].obj)
    /\ \E k \in 1..Len(calls) : ~ValidCandidate(calls[k].obj)

(***************************************************************************)
(* C5: flat-shape detection                                                *)
(***************************************************************************)
LooksFlat(e) == e.t = "obj" /\ e.v["Product"].t # "absent" /\ e.v["Quantity"].t # "absent"

AfterSafeSaleLines ==
    /\ pc \in {"ret_safe_sale_lines", "exc_safe_sale_lines"}
    /\ sales_data.t = "list"

\* C5: a list-shaped sales document is parsed in flat mode iff every
\* top-level element is an object with both a Product and a Quantity key;
\* in flat mode the candidates are the top-level elements, in nested mode
\* no top-level element is parsed as a line.
C5_FlatIffAll ==
    AfterSafeSaleLines =>
        /\ is_flat <=> \A i \in 1..Len(sales_data.v) : LooksFlat(sales_data.v[i])
        /\ is_flat => \A k \in 1..Len(calls) :
                         calls[k].label = <<k>> /\ calls[k].obj = sales_data.v[k]
        /\ ~is_flat => \A k \in 1..Len(calls) : Len(calls[k].label) = 2
        /\ ~is_flat => \A k \in 1..Len(stderr) :
                          stderr[k].msg \in LineMsgs => Len(stderr[k].at) = 2

C5_Witness ==
    /\ pc = "ret_safe_sale_lines"
    /\ ~is_flat
    /\ Len(sales_data.v) = 2
    /\ LooksFlat(sales_data.v[1])
    /\ ValidCandidate(sales_data.v[1])
    /\ ~LooksFlat(sales_data.v[2])
    /\ lines = <<>>

(***************************************************************************)
(* C6, C9: nested mode                                                     *)
(***************************************************************************)
PresentKeys(e) == {n \in 1..4 : e.v[ItemKeys[n]].t # "absent"}

\* the value under the first key present, in priority order
FirstPresent(e) ==
    ItemKeys[CHOOSE n \in PresentKeys(e) : \A m \in PresentKeys(e) : n <= m]

\* C6 as stated: in nested mode the items sub-list of a sale object is the
\* value under the first key present in the order items, Items, sale,
\* Sale, whatever value it holds.
C6_FirstPresentWins ==
    (pc = "ret_safe_sale_lines" /\ ~is_flat) =>
        \A i \in 1..Len(sales_data.v) :
            LET e == sales_data.v[i]
            IN (e.t = "obj" /\ PresentKeys(e) # {}) =>
                   /\ items_sel[i].t = e.v[FirstPresent(e)].t
                   /\ items_sel[i] = e.v[FirstPresent(e)]

ListKeys(e) == {n \in PresentKeys(e) : e.v[ItemKeys[n]].t = "list"}

\* C9 as stated: in nested mode an object whose matching items key holds a
\* sequence, of any length, has its elements parsed as candidates i.j and
\* yields no sale-level diagnostic; the 'unexpected structure' diagnostic
\* is emitted once, and no line contributed, exactly when the element is
\* not an object or no matching sub-list is found.  Where several keys are
\* present the statement is taken only as far as it does not depend on
\* which of them is the matching one.
C9_SaleDiagnostic ==
    (pc = "ret_safe_sale_lines" /\ ~is_flat) =>
        \A i \in 1..Len(sales_data.v) :
            LET e == sales_data.v[i]
                isObj == e.t = "obj"
                parsed == {k \in 1..Len(calls) : calls[k].label[1] = i}
            IN /\ (isObj /\ PresentKeys(e) # {} /\ e.v[FirstPresent(e)].t = "list") =>
                     /\ CountAt(stderr, {"Sale: unexpected structure"}, <<i>>) = 0
                     /\ \E n \in ListKeys(e) : Cardinality(parsed) = Len(e.v[ItemKeys[n]].v)
               /\ (~isObj \/ ListKeys(e) = {}) =>
                     /\ CountAt(stderr, {"Sale: unexpected structure"}, <<i>>) = 1
                     /\ parsed = {}

(***************************************************************************)
(* C2, C3, C4: main                                                        *)
(***************************************************************************)
Finished == pc = "done"
Returned(code) == Finished /\ raised = "none" /\ exit_code = code
Failed == Finished /\ (raised # "none" \/ exit_code # 0)

InputFails(file) == file.st \in {"missing", "badjson"} \/ (file.st = "json" /\ file.doc.t # "list")

\* C2 as stated: main returns 2 exactly when the number of positional
\* arguments is not two, and then reads and writes no file; otherwise 1
\* exactly when an input file is missing, fails to decode, is not a list,
\* or the results file cannot be written; otherwise 0.
C2_ExitCode ==
    Finished =>
        /\ raised = "none"
        /\ exit_code = IF argc # 2 THEN 2
                       ELSE IF InputFails(fs_catalogue) \/ InputFails(fs_sales) \/ ~fs_writable
                            THEN 1 ELSE 0
        /\ argc # 2 => (catalogue_data = NullV /\ sales_data = NullV
                        /\ results_file = "unwritten")

\* C3 as stated: in every run of main that ends with a nonzero exit code
\* nothing has been printed to standard output and the results file has
\* not been written.
C3_Original == Failed => (stdout = <<>> /\ results_file = "unwritten")

WriteFailed == Len(stderr) > 0 /\ stderr[Len(stderr)].msg = "Could not write"

\* C3 amended: in every run of main that ends with a nonzero exit code for
\* a reason other than the results file being unwritable, nothing has been
\* printed to standard output and the results file has not been written;
\* when the results file cannot be written, main returns 1 after the
\* report has been printed to standard output, and the results file does
\* not hold the report.
C3_Amended ==
    Failed =>
        IF WriteFailed
        THEN /\ ~fs_writable
             /\ Returned(1)
             /\ stdout = <<format_results(total)>>
             /\ results_file # "written"
        ELSE /\ stdout = <<>>
             /\ results_file = "unwritten"

C3_Witness ==
    /\ Returned(1)
    /\ WriteFailed
    /\ stdout # <<>>
    /\ Len(lines) > 0

\* C4 as stated: whenever both input documents load and decode to lists
\* and the results file is writable, main returns 0 whatever the invalid
\* records; with no valid record at all the reported total is 0.
C4_NeverFatal ==
    (/\ Finished
     /\ argc = 2
     /\ fs_catalogue.st = "json" /\ fs_catalogue.doc.t = "list"
     /\ fs_sales.st = "json" /\ fs_sales.doc.t = "list"
     /\ fs_writable) =>
        /\ Returned(0)
        /\ results_file = "written"
        /\ (DOMAIN prices = {} \/ lines = <<>>) => stdout = <<format_results(0)>>

====
